---- MODULE Spec2Model ----
(***************************************************************************)
(* json-rs: a recursive-descent JSON parser (src/src/lib.rs).              *)
(*                                                                         *)
(* The parser is modelled as a machine with an explicit call stack.  The   *)
(* state is the character buffer, the shared cursor `pos`, the stack of    *)
(* active productions with their locals, the Result handed from a callee   *)
(* to its caller, and the outcome of `parse`.  One action is one block of  *)
(* the source: the dispatcher, one loop iteration of a production, or the  *)
(* code that runs when a nested call returns.  A Rust panic (an index out  *)
(* of bounds, an `unwrap` of an Err) is the outcome "Panic".               *)
(*                                                                         *)
(* Positions are 0-based as in the source; chars[pos] of the source is     *)
(* cs[p + 1] here.  A character is a one-character string.                 *)
(***************************************************************************)
EXTENDS Integers, Sequences, FiniteSets, TLC

VARIABLES chars,    \* Vec<char> built by parse (line 221)
          pos,      \* the cursor, shared by reference by every production
          stack,    \* active calls, outermost first; the last is running
          ret,      \* the Result a finished call hands to its caller
          status,   \* "running" | "returned" | "panicked"
          outcome,  \* what parse returned to its caller
          pending,  \* texts still to be parsed after this one
          first     \* outcome of the previous parse call

vars == <<chars, pos, stack, ret, status, outcome, pending, first>>

-----------------------------------------------------------------------------
(* Bounds of the explored inputs.                                          *)

MaxPieces == 4
MaxArrayPieces == 5
MaxObjectPieces == 5
MaxStringLen == 4
MaxNumberLen == 4
MaxWsPieces == 2
MaxKeywordPieces == 3

-----------------------------------------------------------------------------
(* Values: enum Type (lines 4-11) and Result<Type, JsonError>.             *)

Null == [t |-> "Null"]
Boolean(b) == [t |-> "Boolean", b |-> b]
Number(f) == [t |-> "Number", f |-> f]
String(s) == [t |-> "String", s |-> s]
Array(a) == [t |-> "Array", a |-> a]
Object(h) == [t |-> "Object", h |-> h]

Ok(v) == [kind |-> "Ok", val |-> v]
UnexpectToken == [kind |-> "Err"]
Panicked(fn, why) == [kind |-> "Panic", fn |-> fn, why |-> why]
None == [kind |-> "None"]

-----------------------------------------------------------------------------
(* Characters.                                                             *)

Digits == {"0", "1", "2", "3", "4", "5", "6", "7", "8", "9"}

DigitVal(ch) ==
  CASE ch = "0" -> 0 [] ch = "1" -> 1 [] ch = "2" -> 2 [] ch = "3" -> 3
    [] ch = "4" -> 4 [] ch = "5" -> 5 [] ch = "6" -> 6 [] ch = "7" -> 7
    [] ch = "8" -> 8 [] ch = "9" -> 9

\* char::is_ascii_whitespace: space, tab, line feed, form feed, carriage return
is_ascii_whitespace(ch) == ch \in {" ", "\t", "\n", "\f", "\r"}

KwTrue == <<"t", "r", "u", "e">>
KwFalse == <<"f", "a", "l", "s", "e">>
KwNull == <<"n", "u", "l", "l">>

-----------------------------------------------------------------------------
(* Cursor primitives.                                                      *)

RECURSIVE skip_whitespace(_, _)
\* the position skip_whitespace leaves in *pos
skip_whitespace(cs, p) ==
  IF p < Len(cs) /\ is_ascii_whitespace(cs[p + 1])
  THEN skip_whitespace(cs, p + 1)
  ELSE p

\* find_str: skips whitespace (moving the cursor), then compares without
\* consuming; returns the boolean and the position it leaves in *pos
find_str(cs, p, str) ==
  LET q == skip_whitespace(cs, p)
  IN [found |-> /\ q + Len(str) <= Len(cs)
                /\ \A i \in 1..Len(str) : cs[q + i] = str[i],
      pos |-> q]

-----------------------------------------------------------------------------
(* str::parse::<f64> as used at line 173.  The accepted texts are          *)
(*   Sign? ( Digit+ | Digit+ '.' Digit* | Digit* '.' Digit+ ) Exp?         *)
(*   Exp ::= [eE] Sign? Digit+                                             *)
(* (the words inf, infinity and nan cannot be built by parse_number).      *)
(* The value is kept as an exact decimal <<m, e>> meaning m * 10^e with m  *)
(* not divisible by 10, and <<0, 0>> for zero of either sign (-0.0 == 0.0  *)
(* under PartialEq): two literals give equal values iff they denote the    *)
(* same number, which is how f64 behaves on the short literals explored.   *)

RECURSIVE DigitsEnd(_, _)
\* the first index >= i of s that does not hold a digit
DigitsEnd(s, i) ==
  IF i <= Len(s) /\ s[i] \in Digits THEN DigitsEnd(s, i + 1) ELSE i

RECURSIVE DigitsValue(_, _, _, _)
\* the integer written by the digits s[i..j-1], continuing from acc
DigitsValue(s, i, j, acc) ==
  IF i >= j THEN acc ELSE DigitsValue(s, i + 1, j, acc * 10 + DigitVal(s[i]))

RECURSIVE Normalize(_, _)
Normalize(m, e) ==
  IF m = 0 THEN <<0, 0>>
  ELSE IF m % 10 = 0 THEN Normalize(m \div 10, e + 1)
  ELSE <<m, e>>

parse_f64(s) ==
  LET neg == Len(s) >= 1 /\ s[1] = "-"
      i0 == IF Len(s) >= 1 /\ s[1] \in {"-", "+"} THEN 2 ELSE 1
      intEnd == DigitsEnd(s, i0)
      hasDot == intEnd <= Len(s) /\ s[intEnd] = "."
      fracStart == IF hasDot THEN intEnd + 1 ELSE intEnd
      fracEnd == DigitsEnd(s, fracStart)
      nDigits == (intEnd - i0) + (fracEnd - fracStart)
      hasExp == fracEnd <= Len(s) /\ s[fracEnd] \in {"e", "E"}
      hasExpSign == hasExp /\ fracEnd + 1 <= Len(s)
                           /\ s[fracEnd + 1] \in {"+", "-"}
      expNeg == hasExpSign /\ s[fracEnd + 1] = "-"
      expStart == IF hasExpSign THEN fracEnd + 2
                  ELSE IF hasExp THEN fracEnd + 1 ELSE fracEnd
      expEnd == DigitsEnd(s, expStart)
      valid == /\ nDigits > 0
               /\ hasExp => expEnd > expStart
               /\ expEnd = Len(s) + 1
      mant == DigitsValue(s, fracStart, fracEnd,
                          DigitsValue(s, i0, intEnd, 0))
      expv == DigitsValue(s, expStart, expEnd, 0)
      exp10 == (IF expNeg THEN 0 - expv ELSE expv) - (fracEnd - fracStart)
  IN IF valid
     THEN [ok |-> TRUE,
           val |-> Normalize(IF neg THEN 0 - mant ELSE mant, exp10)]
     ELSE [ok |-> FALSE]

-----------------------------------------------------------------------------
(* Collections.                                                            *)

\* a push at the wrong end
vec_push_front(result, value) == <<value>> \o result

\* Vec::push (line 109)
vec_push(result, value) == Append(result, value)

\* an insert that keeps the entry already present (entry().or_insert())
hash_insert_keep_first(hash, key, value) ==
  [k \in DOMAIN hash \cup {key} |->
     IF k \in DOMAIN hash THEN hash[k] ELSE value]

\* HashMap::insert (line 52): the new value replaces an earlier one
hash_insert(hash, key, value) ==
  [k \in DOMAIN hash \cup {key} |-> IF k = key THEN value ELSE hash[k]]

EmptyHash == [k \in {} |-> Null]

-----------------------------------------------------------------------------
(* Call frames.  `fn` is the running function and `pc` its position.  A    *)
(* production reached from the dispatcher takes over the dispatcher's      *)
(* frame, because _parse returns that call's Result unchanged (lines 181,  *)
(* 185, 189, 215).  Three fields are history, not locals: `call` is the    *)
(* cursor when _parse was called, `entry` the cursor when the production   *)
(* was entered, `head` the cursor when the loop condition of the current   *)
(* iteration was evaluated.  `seen` and `pairs` record, in order, what the *)
(* nested calls returned to an array and an object.                        *)

DispatchFrame(p) == [fn |-> "_parse", pc |-> "entry", call |-> p, entry |-> p]

ObjectFrame(c, p) ==
  [fn |-> "parse_object", pc |-> "loop", call |-> c, entry |-> p, head |-> p,
   hash |-> EmptyHash, key |-> <<>>, pairs |-> <<>>]

StringFrame(c, p) ==
  [fn |-> "parse_string", pc |-> "loop", call |-> c, entry |-> p, head |-> p,
   result |-> <<>>]

ArrayFrame(c, p) ==
  [fn |-> "parse_array", pc |-> "loop", call |-> c, entry |-> p, head |-> p,
   result |-> <<>>, seen |-> <<>>]

NumberFrame(c, p) ==
  [fn |-> "parse_number", pc |-> "head", call |-> c, entry |-> p, head |-> p,
   number_string |-> <<>>, found_decimal |-> FALSE, found_exponent |-> FALSE]

Top == stack[Len(stack)]
Below == SubSeq(stack, 1, Len(stack) - 1)

At(fn, pc) ==
  /\ status = "running"
  /\ stack # <<>>
  /\ Top.fn = fn
  /\ Top.pc = pc

\* the running function continues as frame f with the cursor at p
Goto(p, f) ==
  /\ pos' = p
  /\ stack' = Append(Below, f)
  /\ ret' = None
  /\ UNCHANGED <<chars, status, outcome, pending, first>>

\* the running function, continuing as f, calls _parse with the cursor at p
Call(p, f) ==
  /\ pos' = p
  /\ stack' = Append(Append(Below, f), DispatchFrame(p))
  /\ ret' = None
  /\ UNCHANGED <<chars, status, outcome, pending, first>>

\* the running function returns res with the cursor at p
Return(p, res) ==
  /\ pos' = p
  /\ stack' = Below
  /\ ret' = [res |-> res, fn |-> Top.fn, call |-> Top.call, entry |-> Top.entry]
  /\ UNCHANGED <<chars, status, outcome, pending, first>>

\* the running function panics with the cursor at p; the panic unwinds
\* through every caller and out of parse
Panic(p, why) ==
  /\ pos' = p
  /\ status' = "panicked"
  /\ outcome' = Panicked(Top.fn, why)
  /\ UNCHANGED <<chars, stack, ret, pending, first>>

-----------------------------------------------------------------------------
(* The dispatcher, lines 176-218.                                          *)

\* a matched literal that is not consumed
Keyword_not_consumed(p, str, value) ==
  LET f == find_str(chars, p, str)
  IN IF f.found THEN Return(f.pos, Ok(value))
     ELSE Return(f.pos, UnexpectToken)

Keyword(p, str, value) ==
  LET f == find_str(chars, p, str)
  IN IF f.found THEN Return(f.pos + Len(str), Ok(value))
     ELSE Return(f.pos, UnexpectToken)

_parse ==
  /\ At("_parse", "entry")
  /\ LET p == skip_whitespace(chars, pos)
         c == Top.call
     IN IF p >= Len(chars) THEN Panic(p, "index")
        ELSE LET ch == chars[p + 1]
             IN CASE ch = "{" -> Goto(p + 1, ObjectFrame(c, p + 1))
                  [] ch = "[" -> Goto(p + 1, ArrayFrame(c, p + 1))
                  [] ch = "\"" -> Goto(p + 1, StringFrame(c, p + 1))
                  [] ch = "t" -> Keyword(p, KwTrue, Boolean(TRUE))
                  [] ch = "f" -> Keyword(p, KwFalse, Boolean(FALSE))
                  [] ch = "n" -> Keyword(p, KwNull, Null)
                  [] ch \in Digits \cup {"-"} -> Goto(p, NumberFrame(c, p))
                  [] OTHER -> Return(p, UnexpectToken)

-----------------------------------------------------------------------------
(* parse_string, lines 69-92: one iteration of the loop.                   *)

parse_string ==
  /\ At("parse_string", "loop")
  /\ IF pos >= Len(chars) THEN Return(pos, UnexpectToken)
     ELSE LET ch == chars[pos + 1]
          IN CASE ch = "\"" -> Return(pos + 1, Ok(String(Top.result)))
               [] ch = "\\" ->
                    IF pos + 1 >= Len(chars) THEN Panic(pos, "index")
                    ELSE LET nx == chars[pos + 2]
                             dec == IF nx = "n" THEN "\n" ELSE nx
                         IN Goto(pos + 2,
                                 [Top EXCEPT !.result = Append(@, dec),
                                             !.head = pos])
               [] OTHER ->
                    Goto(pos + 1, [Top EXCEPT !.result = Append(@, ch),
                                              !.head = pos])

-----------------------------------------------------------------------------
(* parse_number.  Lines 116-135: the sign and the leading zero.            *)

parse_number ==
  /\ At("parse_number", "head")
  /\ LET neg == chars[pos + 1] = "-"
         ns == IF neg THEN <<"-">> ELSE <<>>
         p1 == IF neg THEN pos + 1 ELSE pos
     IN IF p1 >= Len(chars) THEN Panic(p1, "index")
        ELSE IF chars[p1 + 1] = "0"
        THEN LET f == find_str(chars, p1 + 1, <<".">>)
             IN IF f.found
                THEN Goto(f.pos + 1,
                          [Top EXCEPT !.pc = "loop",
                                      !.number_string = ns \o <<"0", ".">>,
                                      !.found_decimal = TRUE])
                ELSE Return(f.pos, UnexpectToken)
        ELSE Goto(p1, [Top EXCEPT !.pc = "loop", !.number_string = ns])

\* lines 137-171: one iteration of the scan
parse_number_scan ==
  /\ At("parse_number", "loop")
  /\ IF pos >= Len(chars) THEN Goto(pos, [Top EXCEPT !.pc = "convert"])
     ELSE LET ch == chars[pos + 1]
              pushed == [Top EXCEPT !.number_string = Append(@, ch),
                                    !.head = pos]
          IN CASE ch \in Digits -> Goto(pos + 1, pushed)
               [] ch = "." ->
                    IF Top.found_decimal \/ Top.found_exponent
                    THEN Return(pos, UnexpectToken)
                    ELSE Goto(pos + 1, [pushed EXCEPT !.found_decimal = TRUE])
               [] ch \in {"e", "E"} ->
                    IF Top.found_exponent THEN Return(pos, UnexpectToken)
                    ELSE IF pos + 1 >= Len(chars) THEN Panic(pos + 1, "index")
                    ELSE LET sg == chars[pos + 2]
                             marked == [pushed EXCEPT !.found_exponent = TRUE]
                         IN IF sg \in {"-", "+"}
                            THEN Goto(pos + 2,
                                      [marked EXCEPT
                                         !.number_string = Append(@, sg)])
                            ELSE Goto(pos + 1, marked)
               [] OTHER -> Goto(pos, [Top EXCEPT !.pc = "convert"])

\* line 173: the conversion and its unwrap
parse_number_convert ==
  /\ At("parse_number", "convert")
  /\ LET r == parse_f64(Top.number_string)
     IN IF r.ok THEN Return(pos, Ok(Number(r.val)))
        ELSE Panic(pos, "unwrap")

-----------------------------------------------------------------------------
(* parse_array, lines 94-114: one iteration up to the nested call.         *)

parse_array ==
  /\ At("parse_array", "loop")
  /\ IF pos >= Len(chars) THEN Return(pos, UnexpectToken)
     ELSE LET p == skip_whitespace(chars, pos)
          IN IF p >= Len(chars) THEN Panic(p, "index")
             ELSE LET ch == chars[p + 1]
                  IN CASE ch = "," /\ Len(Top.result) > 0 ->
                            Goto(p + 1, [Top EXCEPT !.head = pos])
                       [] ch = "," /\ Len(Top.result) = 0 ->
                            Return(p, UnexpectToken)
                       [] ch = "]" -> Return(p + 1, Ok(Array(Top.result)))
                       [] OTHER ->
                            Call(p, [Top EXCEPT !.pc = "value", !.head = pos])

\* lines 108-109: the nested call has returned
parse_array_push ==
  /\ At("parse_array", "value")
  /\ ret # None
  /\ IF ret.res.kind # "Ok" THEN Panic(pos, "unwrap")
     ELSE Goto(pos, [Top EXCEPT
                       !.pc = "loop",
                       !.result = vec_push(@, ret.res.val),
                       !.seen = Append(@, [val |-> ret.res.val,
                                           call |-> ret.call])])

-----------------------------------------------------------------------------
(* parse_object, lines 38-67: one iteration up to the call for the key.    *)

parse_object ==
  /\ At("parse_object", "loop")
  /\ IF pos >= Len(chars) THEN Return(pos, UnexpectToken)
     ELSE LET p == skip_whitespace(chars, pos)
          IN IF p >= Len(chars) THEN Panic(p, "index")
             ELSE IF chars[p + 1] = "}"
             THEN Return(p + 1, Ok(Object(Top.hash)))
             ELSE Call(p, [Top EXCEPT !.pc = "key", !.head = pos])

\* lines 48-51 and 59-64: the key has returned
parse_object_key ==
  /\ At("parse_object", "key")
  /\ ret # None
  /\ IF ret.res.kind # "Ok" THEN Panic(pos, "unwrap")
     ELSE IF ret.res.val.t = "String"
     THEN LET f == find_str(chars, pos, <<":">>)
          IN IF f.found
             THEN Call(f.pos + 1, [Top EXCEPT !.pc = "value",
                                              !.key = ret.res.val.s])
             ELSE Return(f.pos, UnexpectToken)
     ELSE Return(pos, UnexpectToken)

\* lines 51-58: the value has returned
parse_object_value ==
  /\ At("parse_object", "value")
  /\ ret # None
  /\ IF ret.res.kind # "Ok" THEN Panic(pos, "unwrap")
     ELSE LET p == skip_whitespace(chars, pos)
              f == [Top EXCEPT
                      !.pc = "loop",
                      !.hash = hash_insert(@, Top.key, ret.res.val),
                      !.pairs = Append(@, [key |-> Top.key,
                                           val |-> ret.res.val,
                                           call |-> ret.call])]
          IN IF p >= Len(chars) THEN Panic(p, "index")
             ELSE CASE chars[p + 1] = "," -> Goto(p + 1, f)
                    [] chars[p + 1] = "}" -> Goto(p, f)
                    [] OTHER -> Return(p, UnexpectToken)

-----------------------------------------------------------------------------
(* parse, lines 220-230.  Lines 221-223 (building the buffer and calling   *)
(* the dispatcher at position 0) are the initial state.                    *)

\* the dispatcher's result returned without the end-of-buffer test
parse_result_unchecked(cs, p, result) == result

\* lines 225-229
parse_result(cs, p, result) ==
  IF p = Len(cs) THEN result ELSE UnexpectToken

parse ==
  /\ status = "running"
  /\ stack = <<>>
  /\ ret # None
  /\ LET p == skip_whitespace(chars, pos)
     IN /\ pos' = p
        /\ outcome' = parse_result(chars, p, ret.res)
  /\ status' = "returned"
  /\ UNCHANGED <<chars, stack, ret, pending, first>>

\* the caller parses the next text: a fresh buffer and cursor (lines 221-223)
parse_next ==
  /\ status # "running"
  /\ pending # <<>>
  /\ chars' = Head(pending)
  /\ pending' = Tail(pending)
  /\ first' = outcome
  /\ pos' = 0
  /\ stack' = <<DispatchFrame(0)>>
  /\ ret' = None
  /\ status' = "running"
  /\ outcome' = None

-----------------------------------------------------------------------------
(* Inputs.  A text is a concatenation of pieces; each family has the       *)
(* pieces that exercise one production.                                    *)

RECURSIVE Concat(_)
Concat(ps) == IF ps = <<>> THEN <<>> ELSE Head(ps) \o Concat(Tail(ps))

QuotedA == <<"\"", "a", "\"">>
QuotedB == <<"\"", "b", "\"">>

Pieces ==
  {<<"[">>, <<"]">>, <<"{">>, <<"}">>, <<",">>, <<" ">>, <<"x">>, <<"1">>,
   KwNull, QuotedA}

KeywordPieces ==
  {KwTrue, KwFalse, KwNull, <<"t">>, <<"f", "a">>, <<"n", "u">>, <<" ">>,
   <<"[">>, <<"]">>}

ArrayPieces == {<<"1">>, KwNull, <<",">>, <<"]">>, <<" ">>}

ObjectPieces ==
  {QuotedA \o <<":", "1">>, QuotedA \o <<":">> \o KwNull,
   QuotedB \o <<":", "1">>, <<",">>, <<"}">>, <<" ">>}

StringChars == {<<"\"">>, <<"\\">>, <<"n">>, <<"a">>}

NumberChars == {<<"-">>, <<"0">>, <<"1">>, <<".">>, <<"e">>, <<"+">>, <<" ">>}

\* a family: the text is pre, then at most max pieces, then one of sufs
Families ==
  {[pieces |-> Pieces, max |-> MaxPieces, pre |-> <<>>, sufs |-> {<<>>}],
   [pieces |-> KeywordPieces, max |-> MaxKeywordPieces, pre |-> <<>>,
    sufs |-> {<<>>}],
   [pieces |-> ArrayPieces, max |-> MaxArrayPieces, pre |-> <<"[">>,
    sufs |-> {<<>>}],
   [pieces |-> ObjectPieces, max |-> MaxObjectPieces, pre |-> <<"{">>,
    sufs |-> {<<>>}],
   [pieces |-> StringChars, max |-> MaxStringLen, pre |-> <<"\"">>,
    sufs |-> {<<>>}],
   [pieces |-> NumberChars, max |-> MaxNumberLen, pre |-> <<>>,
    sufs |-> {<<>>, <<"]">>}],
   [pieces |-> NumberChars, max |-> MaxNumberLen, pre |-> <<"[">>,
    sufs |-> {<<>>, <<"]">>}]}

Init ==
  /\ \E fam \in Families : \E k \in 0..fam.max :
       \E ps \in [1..k -> fam.pieces] : \E suf \in fam.sufs :
         chars = fam.pre \o Concat(ps) \o suf
  /\ pos = 0
  /\ stack = <<DispatchFrame(0)>>
  /\ ret = None
  /\ status = "running"
  /\ outcome = None
  /\ pending = <<>>
  /\ first = None

Next ==
  \/ _parse
  \/ parse_string
  \/ parse_number
  \/ parse_number_scan
  \/ parse_number_convert
  \/ parse_array
  \/ parse_array_push
  \/ parse_object
  \/ parse_object_key
  \/ parse_object_value
  \/ parse

Spec == Init /\ [][Next]_vars

\* parse is a plain synchronous call: it keeps running until it returns or
\* panics
LiveSpec == Init /\ [][Next]_vars /\ WF_vars(Next)

-----------------------------------------------------------------------------
(* Two parses in a row: a text, then the same text with a run of ASCII     *)
(* whitespace inserted between two of its tokens.  The texts are           *)
(* concatenations of whole tokens, so every cut between two pieces is a    *)
(* token boundary, except between two pieces of one number.                *)

WsPieces ==
  {<<"[">>, <<"]">>, <<"{">>, <<"}">>, <<",">>, <<":">>, <<"1">>, KwNull,
   QuotedA}

WsRuns == {<<" ">>, <<"\n">>, <<" ", "\t">>}

InNumber(ch) == ch \in Digits \cup {"-", "+", ".", "e", "E"}

Boundary(a, b) ==
  ~ (a # <<>> /\ b # <<>> /\ InNumber(a[Len(a)]) /\ InNumber(b[1]))

WsInit ==
  /\ \E ka \in 0..MaxWsPieces, kb \in 0..MaxWsPieces :
       \E pa \in [1..ka -> WsPieces], pb \in [1..kb -> WsPieces], w \in WsRuns :
         LET a == Concat(pa)
             b == Concat(pb)
         IN /\ Boundary(a, b)
            /\ chars = a \o b
            /\ pending = <<a \o w \o b>>
  /\ pos = 0
  /\ stack = <<DispatchFrame(0)>>
  /\ ret = None
  /\ status = "running"
  /\ outcome = None
  /\ first = None

WsNext == Next \/ parse_next

WsSpec == WsInit /\ [][WsNext]_vars

-----------------------------------------------------------------------------
(* Properties.                                                             *)

Finished == status # "running"
Returned == status = "returned"

\* a call has just returned to its caller
JustReturned(fn) == status = "running" /\ ret # None /\ ret.fn = fn

SameOutcome(a, b) == a.kind = b.kind /\ (a.kind = "Ok" => a.val = b.val)

\* C1: parse always returns a result, Ok(value) or Err(UnexpectToken); no
\* execution indexes the buffer at or past its length or unwraps a nested
\* error, so no call panics.
NeverPanics == status # "panicked"

\* C2: parse returns Ok only if the dispatcher returned Ok and, after the
\* trailing whitespace is skipped, the cursor is at the end of the buffer; and
\* whenever the dispatcher returned a value but a non-whitespace character is
\* left after it, parse returns Err(UnexpectToken).
TrailingContentRejected ==
  Returned =>
    /\ outcome.kind \in {"Ok", "Err"}
    /\ outcome.kind = "Ok" =>
         /\ ret.res.kind = "Ok"
         /\ outcome = ret.res
         /\ pos = Len(chars)
    /\ pos < Len(chars) =>
         /\ ~ is_ascii_whitespace(chars[pos + 1])
         /\ outcome = UnexpectToken

TrailingContentSeen ==
  /\ Returned
  /\ ret.res.kind = "Ok"
  /\ pos < Len(chars)
  /\ outcome = UnexpectToken

\* the text is an array, and a comma in it is followed (after optional
\* whitespace) by `]`, or its first token is a comma; texts with string
\* literals are left out so that every comma is a separator
DanglingComma(cs) ==
  LET i0 == skip_whitespace(cs, 0)
  IN /\ i0 < Len(cs)
     /\ cs[i0 + 1] = "["
     /\ \A i \in 1..Len(cs) : cs[i] # "\""
     /\ \/ LET q == skip_whitespace(cs, i0 + 1)
           IN q < Len(cs) /\ cs[q + 1] = ","
        \/ \E i \in 1..Len(cs) :
             /\ cs[i] = ","
             /\ LET q == skip_whitespace(cs, i)
                IN q < Len(cs) /\ cs[q + 1] = "]"

\* C3: an array text in which a comma is followed directly by the closing
\* `]`, or whose first token after `[` is a comma, is never parsed to a value:
\* parse returns Err(UnexpectToken).
CommaNeedsValue ==
  (Returned /\ DanglingComma(chars)) => outcome = UnexpectToken

\* C4: whenever the scan of parse_number reaches the final conversion, the
\* accumulated number string is a well-formed float literal, so the conversion
\* succeeds.
ConversionSucceeds ==
  At("parse_number", "convert") => parse_f64(Top.number_string).ok

\* the text is a number whose integer part starts with `0` and the character
\* right after that `0` is not `.`
ZeroWithoutPoint(cs) ==
  LET i0 == skip_whitespace(cs, 0)
      d == IF i0 < Len(cs) /\ cs[i0 + 1] = "-" THEN i0 + 1 ELSE i0
  IN /\ d < Len(cs)
     /\ cs[d + 1] = "0"
     /\ ~ (d + 1 < Len(cs) /\ cs[d + 2] = ".")

\* C5: a number whose first digit is `0` is accepted only when the very next
\* character is `.`; a bare `0`, `01` and `0 .5` are rejected with
\* Err(UnexpectToken).
LeadingZeroNeedsPoint ==
  (Returned /\ ZeroWithoutPoint(chars)) => outcome = UnexpectToken

\* C6: inserting a run of ASCII whitespace at a token boundary of a text does
\* not change the outcome of parse: the same value, or the same error.
WhitespaceInsensitive ==
  (Finished /\ first # None) => SameOutcome(outcome, first)

RECURSIVE RefString(_, _, _)
\* the reference decoder of C7, started just after the opening quote
RefString(cs, p, acc) ==
  IF p >= Len(cs) THEN [res |-> UnexpectToken]
  ELSE IF cs[p + 1] = "\"" THEN [res |-> Ok(String(acc)), pos |-> p + 1]
  ELSE IF cs[p + 1] = "\\"
  THEN IF p + 1 >= Len(cs) THEN [res |-> UnexpectToken]
       ELSE RefString(cs, p + 2,
                      Append(acc, IF cs[p + 2] = "n" THEN "\n" ELSE cs[p + 2]))
  ELSE RefString(cs, p + 1, Append(acc, cs[p + 1]))

\* every call of parse_string that returned agrees with the reference
StringReturnsReference ==
  JustReturned("parse_string") =>
    LET r == RefString(chars, ret.entry, <<>>)
    IN /\ ret.res = r.res
       /\ r.res.kind = "Ok" => pos = r.pos

\* C7: every call of parse_string ends by returning what the reference decoder
\* gives for the buffer and the position just after the opening quote: the
\* decoded string and the position past the closing quote, or the error when
\* the buffer ends first.
StringMatchesReference ==
  /\ StringReturnsReference
  /\ ~ (status = "panicked" /\ outcome.fn = "parse_string")

\* the positions in a record of nested calls increase
InSourceOrder(h) == \A i, j \in 1..Len(h) : i < j => h[i].call < h[j].call

\* the map that sends each key of the pairs to the value of its last pair
LastWins(h) ==
  [k \in {h[i].key : i \in 1..Len(h)} |->
     LET last == CHOOSE i \in 1..Len(h) :
                   /\ h[i].key = k
                   /\ \A j \in 1..Len(h) : h[j].key = k => j <= i
     IN h[last].val]

ObjectReturnIsLastWins ==
  (At("parse_object", "loop") /\ ret' # None /\ ret'.res.kind = "Ok") =>
     /\ InSourceOrder(Top.pairs)
     /\ ret'.res.val = Object(LastWins(Top.pairs))

\* C8: the Object returned for an object text maps each key that occurs in the
\* text to the value of the key's last occurrence in source order, and has no
\* other key.
ObjectLastWins == [][ObjectReturnIsLastWins]_vars

\* `{"a":1,"a":null}` parsed: the key a maps to null
ObjectOverwriteSeen ==
  /\ Returned
  /\ chars = <<"{">> \o QuotedA \o <<":", "1", ",">> \o QuotedA \o <<":">>
               \o KwNull \o <<"}">>
  /\ outcome = Ok(Object([k \in {<<"a">>} |-> Null]))

ArrayReturnIsInOrder ==
  (At("parse_array", "loop") /\ ret' # None /\ ret'.res.kind = "Ok") =>
     /\ InSourceOrder(Top.seen)
     /\ ret'.res.val = Array([i \in 1..Len(Top.seen) |-> Top.seen[i].val])

\* C9: the Array returned for an array text holds exactly the values parsed
\* between `[` and the matching `]`, one element per value, in source order;
\* `[ ]` gives the empty sequence.
ArrayInOrder == [][ArrayReturnIsInOrder]_vars

\* `[1, null]` parsed to its two elements in that order
ArrayOrderSeen ==
  /\ Returned
  /\ chars = <<"[", "1", ",", " ">> \o KwNull \o <<"]">>
  /\ outcome = Ok(Array(<<Number(<<1, 0>>), Null>>))

CursorInBounds == pos <= Len(chars)

CursorMonotone == pos' >= pos

\* a frame is inside one of the four loops
InLoop(f) ==
  /\ f.fn \in {"parse_string", "parse_number", "parse_array", "parse_object"}
  /\ f.pc \in {"loop", "key", "value"}

\* a step that brings a loop back to its condition has moved the cursor past
\* where the iteration started
LoopProgress ==
  (/\ status = "running" /\ status' = "running"
   /\ stack # <<>> /\ Len(stack') = Len(stack)
   /\ InLoop(Top) /\ stack'[Len(stack')].pc = "loop") =>
     pos' > (IF Top.pc = "loop" THEN pos ELSE Top.head)

\* a call of the dispatcher that returns a value has consumed a character
DispatchConsumes ==
  (Len(stack') = Len(stack) - 1 /\ ret' # None /\ ret'.res.kind = "Ok") =>
     pos' > ret'.call

\* C10: every call of parse terminates: the cursor never decreases and never
\* exceeds the buffer length, every loop iteration that does not leave its
\* loop strictly increases the cursor, and every successful dispatcher call
\* consumes at least one character.
ParseTerminates ==
  /\ [] CursorInBounds
  /\ [][CursorMonotone /\ LoopProgress /\ DispatchConsumes]_vars
  /\ <> Finished

\* a parse that went round a loop more than once and returned
LoopsSeen ==
  /\ Returned
  /\ outcome.kind = "Ok"
  /\ outcome.val.t = "Array"
  /\ Len(outcome.val.a) >= 2

====
